---- MODULE Spec2Model ----
(***************************************************************************)
(* Model of the FPL value pipeline of src/fpl_functions.py.                *)
(*                                                                         *)
(*   SpecLoad   : prepare_data / load_history -- the thread-pool fan-out   *)
(*                of per-player history fetches, the shared `completed`    *)
(*                counter, the progress callback, as_completed collection  *)
(*                and the executor's exit.                                 *)
(*   SpecFilter : filter_data -- subset, history restriction, per-player   *)
(*                cumulative sum, metadata merge, grouped summary, sort.   *)
(***************************************************************************)
EXTENDS Integers, Sequences, FiniteSets, TLC

\* ---------------------------------------------------------------- bounds
MaxPlayers == 3      \* players in a bootstrap payload (ids 1..MaxPlayers)
MaxWorkers == 2      \* threads of the pool (min(32, cpu+4) in CPython), scaled down
MaxRows == 3         \* rows of the history table handed to filter_data

\* ------------------------------------------------------------- variables
VARIABLES
    \* --- prepare_data / load_history
    payload,            \* json['elements']: id -> minutes
    mainpc,             \* position of the calling thread
    entry,              \* "prepare_data" or "load_history" (direct call)
    progress_callback,  \* TRUE iff a callback was passed
    slim_ids,           \* ids of slim_elements_df built by prepare_data
    elements_df,        \* the table handed to load_history (sequence of ids)
    futures,            \* futures submitted so far, in submission order
    pc,                 \* per task: position of load_with_progress
    fstate,             \* per future: "pending", "ok" or the exception it holds
    tmp,                \* per task: value of `completed` read by `completed += 1`
    arg,                \* per task: first argument evaluated for the callback
    completed,          \* the nonlocal counter
    calls,              \* progress_callback invocations, in order: <<completed, total>>
    requests,           \* element ids for which an HTTP GET was issued, in order
    consumed,           \* futures whose result() the caller has taken
    frames,             \* per-player frames collected so far (by element id)
    pendingExc,         \* exception in flight in the caller ("none" if none)
    pendingAtRaise,     \* tasks not yet finished when result() raised
    result,             \* what load_history handed back
    \* --- filter_data
    slim_elements_df,   \* canonical slim player table
    all_history_df,     \* canonical long-format history table
    filterpc,           \* "idle" until the first filter_data call returned
    subset_df,          \* returned subset
    fh_key_players_df,  \* returned annotated history
    dynamic_table       \* returned summary table

loadVars == <<payload, mainpc, entry, progress_callback, slim_ids, elements_df,
              futures, pc, fstate, tmp, arg, completed, calls, requests,
              consumed, frames, pendingExc, pendingAtRaise, result>>
filterVars == <<slim_elements_df, all_history_df, filterpc, subset_df,
                fh_key_players_df, dynamic_table>>
vars == <<loadVars, filterVars>>

\* ------------------------------------------------------------ helpers
Ids == 1..MaxPlayers
MinutesValues == {0, 90}
ExcKinds == {"ConnectionError", "KeyError"}

Range(s) == {s[k] : k \in 1..Len(s)}

RECURSIVE SeqSum(_)
SeqSum(s) == IF s = <<>> THEN 0 ELSE s[1] + SeqSum(Tail(s))

\* ======================================================================
\* prepare_data / load_history
\* ======================================================================

\* line 58, elements_df[elements_df.minutes > 0] : the ids kept, in payload
\* order (MinutesFilterAll: the variant that keeps every player)
MinutesFilterAll(p) == [i \in Ids |-> i]
MinutesFilter(p) == SelectSeq([i \in Ids |-> i], LAMBDA i : p[i] > 0)

\* tasks occupying a worker thread
Running == {i \in Ids : pc[i] \in {"fetching", "load", "store", "args", "call"}}

\* the work queue is FIFO: the first submitted task still queued
IsHeadOfQueue(i) ==
    /\ pc[i] = "queued"
    /\ \A k \in 1..Len(futures) :
          (pc[futures[k]] = "queued") =>
              (\E m \in 1..k : futures[m] = i)

\* ThreadPoolExecutor.__exit__ : shutdown(wait=True) joins every worker, and
\* the workers drain the queue before they see the shutdown sentinel
ShutdownNoWait == TRUE
ShutdownWaits == \A i \in Range(futures) : pc[i] = "done"

\* future.result(): the frame of a successful task, or its exception re-raised
FutureRaises(i) == fstate[i] # "ok"

InitFilterIdle ==
    /\ slim_elements_df = <<>>
    /\ all_history_df = <<>>
    /\ filterpc = "idle"
    /\ subset_df = <<>>
    /\ fh_key_players_df = <<>>
    /\ dynamic_table = <<>>

InitLoadVars ==
    /\ payload = [i \in Ids |-> 0]
    /\ mainpc = "start"
    /\ entry = "none"
    /\ progress_callback = FALSE
    /\ slim_ids = <<>>
    /\ elements_df = <<>>
    /\ futures = <<>>
    /\ pc = [i \in Ids |-> "none"]
    /\ fstate = [i \in Ids |-> "pending"]
    /\ tmp = [i \in Ids |-> 0]
    /\ arg = [i \in Ids |-> 0]
    /\ completed = 0
    /\ calls = <<>>
    /\ requests = <<>>
    /\ consumed = {}
    /\ frames = <<>>
    /\ pendingExc = "none"
    /\ pendingAtRaise = {}
    /\ result = [kind |-> "none", table |-> <<>>, exc |-> "none"]

InitLoad == InitLoadVars /\ InitFilterIdle

\* prepare_data(api_data), lines 50-79: filter on minutes, build the slim
\* table, then call load_history(elements_df) without a callback
PrepareData ==
    /\ mainpc = "start"
    /\ mainpc' = "submit"
    /\ entry' = "prepare_data"
    /\ progress_callback' = FALSE
    /\ \E p \in [Ids -> MinutesValues] :
          /\ payload' = p
          /\ elements_df' = MinutesFilter(p)
          /\ slim_ids' = MinutesFilter(p)
    /\ UNCHANGED <<futures, pc, fstate, tmp, arg, completed, calls,
                   requests, consumed, frames, pendingExc, pendingAtRaise, result>>
    /\ UNCHANGED filterVars

\* a direct call load_history(elements_df, progress_callback) on a caller's table
LoadHistoryCall ==
    /\ mainpc = "start"
    /\ \E n \in 0..MaxPlayers : elements_df' = [i \in 1..n |-> i]
    /\ mainpc' = "submit"
    /\ entry' = "load_history"
    /\ progress_callback' = TRUE
    /\ UNCHANGED <<payload, slim_ids, futures, pc, fstate, tmp, arg, completed,
                   calls, requests, consumed, frames, pendingExc, pendingAtRaise,
                   result>>
    /\ UNCHANGED filterVars

\* line 38: executor.submit(load_with_progress, element_id), one per id
Submit ==
    /\ mainpc = "submit"
    /\ Len(futures) < Len(elements_df)
    /\ LET id == elements_df[Len(futures) + 1] IN
          /\ futures' = Append(futures, id)
          /\ pc' = [pc EXCEPT ![id] = "queued"]
    /\ UNCHANGED <<payload, mainpc, entry, progress_callback, slim_ids,
                   elements_df, fstate, tmp, arg, completed, calls, requests,
                   consumed, frames, pendingExc, pendingAtRaise, result>>
    /\ UNCHANGED filterVars

\* line 39: the list of futures is complete, as_completed starts
StartCollect ==
    /\ mainpc = "submit"
    /\ Len(futures) = Len(elements_df)
    /\ mainpc' = "collect"
    /\ UNCHANGED <<payload, entry, progress_callback, slim_ids, elements_df,
                   futures, pc, fstate, tmp, arg, completed, calls, requests,
                   consumed, frames, pendingExc, pendingAtRaise, result>>
    /\ UNCHANGED filterVars

\* a worker thread takes the next work item
Start(i) ==
    /\ IsHeadOfQueue(i)
    /\ Cardinality(Running) < MaxWorkers
    /\ pc' = [pc EXCEPT ![i] = "fetching"]
    /\ UNCHANGED <<payload, mainpc, entry, progress_callback, slim_ids,
                   elements_df, futures, fstate, tmp, arg, completed, calls,
                   requests, consumed, frames, pendingExc, pendingAtRaise, result>>
    /\ UNCHANGED filterVars

\* line 31: load_player_history(element_id) returns the player's frame
FetchOk(i) ==
    /\ pc[i] = "fetching"
    /\ requests' = Append(requests, i)
    /\ pc' = [pc EXCEPT ![i] = "load"]
    /\ UNCHANGED <<payload, mainpc, entry, progress_callback, slim_ids,
                   elements_df, futures, fstate, tmp, arg, completed, calls,
                   consumed, frames, pendingExc, pendingAtRaise, result>>
    /\ UNCHANGED filterVars

\* line 31: load_player_history raises; the future stores the exception
FetchFail(i) ==
    /\ pc[i] = "fetching"
    /\ requests' = Append(requests, i)
    /\ \E e \in ExcKinds : fstate' = [fstate EXCEPT ![i] = e]
    /\ pc' = [pc EXCEPT ![i] = "done"]
    /\ UNCHANGED <<payload, mainpc, entry, progress_callback, slim_ids,
                   elements_df, futures, tmp, arg, completed, calls,
                   consumed, frames, pendingExc, pendingAtRaise, result>>
    /\ UNCHANGED filterVars

\* line 32, `completed += 1`, first half: read the cell
LoadCompleted(i) ==
    /\ pc[i] = "load"
    /\ tmp' = [tmp EXCEPT ![i] = completed]
    /\ pc' = [pc EXCEPT ![i] = "store"]
    /\ UNCHANGED <<payload, mainpc, entry, progress_callback, slim_ids,
                   elements_df, futures, fstate, arg, completed, calls, requests,
                   consumed, frames, pendingExc, pendingAtRaise, result>>
    /\ UNCHANGED filterVars

\* line 32, `completed += 1`, second half: write the cell; no lock is held
StoreCompleted(i) ==
    /\ pc[i] = "store"
    /\ completed' = tmp[i] + 1
    /\ pc' = [pc EXCEPT ![i] = "args"]
    /\ UNCHANGED <<payload, mainpc, entry, progress_callback, slim_ids,
                   elements_df, futures, fstate, tmp, arg, calls, requests,
                   consumed, frames, pendingExc, pendingAtRaise, result>>
    /\ UNCHANGED filterVars

\* lines 33-35 with progress_callback None: return result
NoCallback(i) ==
    /\ pc[i] = "args"
    /\ ~progress_callback
    /\ pc' = [pc EXCEPT ![i] = "done"]
    /\ fstate' = [fstate EXCEPT ![i] = "ok"]
    /\ UNCHANGED <<payload, mainpc, entry, progress_callback, slim_ids,
                   elements_df, futures, tmp, arg, completed, calls, requests,
                   consumed, frames, pendingExc, pendingAtRaise, result>>
    /\ UNCHANGED filterVars

\* line 34: the arguments (completed, total) are evaluated
ReadArgs(i) ==
    /\ pc[i] = "args"
    /\ progress_callback
    /\ arg' = [arg EXCEPT ![i] = completed]
    /\ pc' = [pc EXCEPT ![i] = "call"]
    /\ UNCHANGED <<payload, mainpc, entry, progress_callback, slim_ids,
                   elements_df, futures, fstate, tmp, completed, calls, requests,
                   consumed, frames, pendingExc, pendingAtRaise, result>>
    /\ UNCHANGED filterVars

\* lines 34-35: the callback runs in the worker thread, then the task returns
Callback(i) ==
    /\ pc[i] = "call"
    /\ calls' = Append(calls, <<arg[i], Len(elements_df)>>)
    /\ pc' = [pc EXCEPT ![i] = "done"]
    /\ fstate' = [fstate EXCEPT ![i] = "ok"]
    /\ UNCHANGED <<payload, mainpc, entry, progress_callback, slim_ids,
                   elements_df, futures, tmp, arg, completed, requests,
                   consumed, frames, pendingExc, pendingAtRaise, result>>
    /\ UNCHANGED filterVars

\* line 39: as_completed yields a finished future and result() returns its frame
CollectOk(i) ==
    /\ mainpc = "collect"
    /\ i \in Range(futures) \ consumed
    /\ pc[i] = "done"
    /\ ~FutureRaises(i)
    /\ consumed' = consumed \cup {i}
    /\ frames' = Append(frames, i)
    /\ UNCHANGED <<payload, mainpc, entry, progress_callback, slim_ids,
                   elements_df, futures, pc, fstate, tmp, arg, completed, calls,
                   requests, pendingExc, pendingAtRaise, result>>
    /\ UNCHANGED filterVars

\* line 39: result() re-raises the task's exception; the comprehension is
\* abandoned and the with-block is left with the exception in flight
CollectRaise(i) ==
    /\ mainpc = "collect"
    /\ i \in Range(futures) \ consumed
    /\ pc[i] = "done"
    /\ FutureRaises(i)
    /\ consumed' = consumed \cup {i}
    /\ pendingExc' = fstate[i]
    /\ pendingAtRaise' = {j \in Range(futures) : pc[j] # "done"}
    /\ frames' = <<>>
    /\ mainpc' = "exit"
    /\ UNCHANGED <<payload, entry, progress_callback, slim_ids, elements_df,
                   futures, pc, fstate, tmp, arg, completed, calls, requests,
                   result>>
    /\ UNCHANGED filterVars

\* line 39: pd.concat of the collected frames (ValueError on an empty list)
Concat ==
    /\ mainpc = "collect"
    /\ consumed = Range(futures)
    /\ pendingExc' = IF frames = <<>> THEN "ValueError" ELSE "none"
    /\ mainpc' = "exit"
    /\ UNCHANGED <<payload, entry, progress_callback, slim_ids, elements_df,
                   futures, pc, fstate, tmp, arg, completed, calls, requests,
                   consumed, frames, pendingAtRaise, result>>
    /\ UNCHANGED filterVars

\* lines 37-40: the with-block exits (executor shutdown), then load_history
\* returns the table or the exception reaches the caller
ExecutorExit ==
    /\ mainpc = "exit"
    /\ ShutdownWaits
    /\ IF pendingExc = "none"
          THEN /\ mainpc' = "returned"
               /\ result' = [kind |-> "table", table |-> frames, exc |-> "none"]
          ELSE /\ mainpc' = "raised"
               /\ result' = [kind |-> "exception", table |-> <<>>, exc |-> pendingExc]
    /\ UNCHANGED <<payload, entry, progress_callback, slim_ids, elements_df,
                   futures, pc, fstate, tmp, arg, completed, calls, requests,
                   consumed, frames, pendingExc, pendingAtRaise>>
    /\ UNCHANGED filterVars

NextLoad ==
    \/ PrepareData
    \/ LoadHistoryCall
    \/ Submit
    \/ StartCollect
    \/ \E i \in Ids : Start(i)
    \/ \E i \in Ids : FetchOk(i)
    \/ \E i \in Ids : FetchFail(i)
    \/ \E i \in Ids : LoadCompleted(i)
    \/ \E i \in Ids : StoreCompleted(i)
    \/ \E i \in Ids : NoCallback(i)
    \/ \E i \in Ids : ReadArgs(i)
    \/ \E i \in Ids : Callback(i)
    \/ \E i \in Ids : CollectOk(i)
    \/ \E i \in Ids : CollectRaise(i)
    \/ Concat
    \/ ExecutorExit

SpecLoad == InitLoad /\ [][NextLoad]_vars

\* ======================================================================
\* filter_data
\* ======================================================================

\* Tables are sequences of records.  `price` holds now_cost, i.e. the price
\* in tenths: the float price of line 68 is price / 10.
PlayerNames == {"Ali Ba", "Bo Cy"}
TeamNames == {"Arsenal", "Chelsea"}
Positions == {"Defender", "Goalkeeper"}
Prices == {0, 50}
Rounds == 1..2
PointsValues == {-1, 4}

\* lexicographic order of the strings that occur as grouping keys
StrOrder == <<"Ali Ba", "Arsenal", "Bo Cy", "Chelsea", "Defender", "Goalkeeper">>
Rank(str) == CHOOSE k \in 1..Len(StrOrder) : StrOrder[k] = str

\* slim tables prepare_data can build for a two-player roster (ids are unique)
Rosters ==
    { << [id |-> 1, player |-> "Ali Ba", team_name |-> "Arsenal",
          position |-> "Defender", price |-> p1],
         [id |-> 2, player |-> n2, team_name |-> t2,
          position |-> q2, price |-> 50] >> :
        <<p1, n2, t2, q2>> \in Prices \X PlayerNames \X TeamNames \X Positions }

\* rows of the per-player frames of load_player_history (line 20)
RawRows ==
    [element : {1, 2}, round : Rounds, total_points : PointsValues,
     defensive_contribution : {2}, bonus : {1}]

\* history tables: at most one row per (player, round), in any row order
RawHistories ==
    { h \in UNION { [1..n -> RawRows] : n \in 0..MaxRows } :
        \A j, k \in 1..Len(h) :
            (j # k) => (h[j].element # h[k].element \/ h[j].round # h[k].round) }

\* prepare_data lines 80-81: the display name mapped onto every history row
WithPlayerColumn(h, roster) ==
    [k \in 1..Len(h) |->
        [player |-> (CHOOSE p \in Range(roster) : p.id = h[k].element).player]
            @@ h[k]]

TeamSelections == {{}, {"Chelsea"}}
PositionSelections == {"All", "Goalkeeper"}
MinWeeks == {0, 2}

\* --- frames as objects: a heap is a sequence of tables, a reference an index

\* line 96, DataFrame.copy(): a new object with the same rows
CopyFrame(h, r) == [heap |-> Append(h, h[r]), ref |-> Len(h) + 1]

\* lines 98 and 100, df[mask]: a new object holding the selected rows
SelectPosition(h, r, pos) ==
    [heap |-> Append(h, SelectSeq(h[r], LAMBDA p : p.position = pos)),
     ref |-> Len(h) + 1]
SelectTeams(h, r, teams) ==
    [heap |-> Append(h, SelectSeq(h[r], LAMBDA p : p.team_name \in teams)),
     ref |-> Len(h) + 1]

\* lines 105-108, all_history_df[isin(subset_ids) & (round >= min_week)].copy()
\* (RestrictHistoryInPlace: the variant that filters the caller's table itself)
RestrictHistoryInPlace(h, r, ids, minw) ==
    [heap |-> [h EXCEPT ![r] =
                  SelectSeq(h[r], LAMBDA x : x.element \in ids /\ x.round >= minw)],
     ref |-> r]
RestrictHistory(h, r, ids, minw) ==
    [heap |-> Append(h,
                  SelectSeq(h[r], LAMBDA x : x.element \in ids /\ x.round >= minw)),
     ref |-> Len(h) + 1]

\* groupby('element')['total_points'].cumsum(): running sum in ROW order
CumsumAt(tbl, k) ==
    SeqSum([j \in 1..k |->
               IF tbl[j].element = tbl[k].element THEN tbl[j].total_points ELSE 0])

\* line 111: the column is assigned on the object r refers to
AssignCumsum(h, r) ==
    [h EXCEPT ![r] =
        [k \in 1..Len(h[r]) |->
            [total_points_sum |-> CumsumAt(h[r], k)] @@ h[r][k]]]

\* lines 114-118, left merge on element = id (ids are unique in the slim
\* table and every restricted row's element is one of them)
MergeMetadata(fh, slim) ==
    [k \in 1..Len(fh) |->
        LET m == CHOOSE p \in Range(slim) : p.id = fh[k].element IN
            [id |-> m.id, price |-> m.price, team_name |-> m.team_name,
             position |-> m.position] @@ fh[k]]

\* float division of an integer by price / 10: inf, -inf or nan on a zero price
Divide(n, price) ==
    IF price = 0
        THEN [kind |-> IF n > 0 THEN "inf" ELSE IF n < 0 THEN "-inf" ELSE "nan",
              num |-> 0, den |-> 0]
        ELSE IF price > 0
                 THEN [kind |-> "finite", num |-> 10 * n, den |-> price]
                 ELSE [kind |-> "finite", num |-> 0 - 10 * n, den |-> 0 - price]

\* round-half-to-even of a / b, b > 0
RoundHalfEven(a, b) ==
    LET q == a \div b
        r == a % b
    IN IF 2 * r < b THEN q
       ELSE IF 2 * r > b THEN q + 1
       ELSE IF q % 2 = 0 THEN q ELSE q + 1

\* line 127, (total_points / price).round(2): a number of hundredths
DivideRound2(n, price) ==
    LET d == Divide(n, price) IN
        IF d.kind = "finite"
            THEN [kind |-> "finite", num |-> RoundHalfEven(100 * d.num, d.den),
                  den |-> 100]
            ELSE d

\* line 119
WithTotalValue(tbl) ==
    [k \in 1..Len(tbl) |->
        [total_value |-> Divide(tbl[k].total_points_sum, tbl[k].price)] @@ tbl[k]]

\* the grouping key of line 122 and its sort order
KeyOf(row) == <<row.player, row.team_name, row.position, row.price>>
KeyLess(a, b) ==
    \/ Rank(a[1]) < Rank(b[1])
    \/ a[1] = b[1] /\ Rank(a[2]) < Rank(b[2])
    \/ a[1] = b[1] /\ a[2] = b[2] /\ Rank(a[3]) < Rank(b[3])
    \/ a[1] = b[1] /\ a[2] = b[2] /\ a[3] = b[3] /\ a[4] < b[4]

RECURSIVE SortedKeys(_)
SortedKeys(keys) ==
    IF keys = {} THEN <<>>
    ELSE LET least == CHOOSE a \in keys : \A b \in keys \ {a} : KeyLess(a, b)
         IN <<least>> \o SortedKeys(keys \ {least})

ColumnSum(tbl, key, col) ==
    SeqSum([k \in 1..Len(tbl) |-> IF KeyOf(tbl[k]) = key THEN tbl[k][col] ELSE 0])

\* lines 122-127: one row per distinct key, keys ascending, sums per key
GroupedSummary(tbl) ==
    LET keys == SortedKeys({KeyOf(tbl[k]) : k \in 1..Len(tbl)}) IN
        [g \in 1..Len(keys) |->
            LET tp == ColumnSum(tbl, keys[g], "total_points") IN
            [player |-> keys[g][1], team_name |-> keys[g][2],
             position |-> keys[g][3], price |-> keys[g][4],
             total_points |-> tp,
             defensive_contribution |->
                 ColumnSum(tbl, keys[g], "defensive_contribution"),
             bonus |-> ColumnSum(tbl, keys[g], "bonus"),
             total_value |-> DivideRound2(tp, keys[g][4])]]

\* line 128, sort_values('total_points', ascending=False) with the default
\* kind 'quicksort', which is not stable: any descending arrangement of the rows
SortOutcomes(tbl) ==
    { s \in [1..Len(tbl) -> Range(tbl)] :
        /\ \A j, k \in 1..Len(tbl) : (j # k) => (s[j] # s[k])
        /\ \A j, k \in 1..Len(tbl) :
              (j < k) => (s[j].total_points >= s[k].total_points) }

\* lines 96-127 on a heap whose objects 1 and 2 are the caller's tables
filter_data(slim, hist, selected_teams, selected_position, min_week) ==
    LET h0 == <<slim, hist>>
        c1 == CopyFrame(h0, 1)
        c2 == IF selected_position # "All"
                  THEN SelectPosition(c1.heap, c1.ref, selected_position)
                  ELSE c1
        c3 == IF selected_teams # {}
                  THEN SelectTeams(c2.heap, c2.ref, selected_teams)
                  ELSE c2
        subset_ids == {p.id : p \in Range(c3.heap[c3.ref])}
        c4 == RestrictHistory(c3.heap, 2, subset_ids, min_week)
        h5 == AssignCumsum(c4.heap, c4.ref)
        merged == WithTotalValue(MergeMetadata(h5[c4.ref], h5[1]))
    IN [slim_elements_df |-> h5[1],
        all_history_df |-> h5[2],
        subset_df |-> h5[c3.ref],
        fh_key_players_df |-> merged,
        grouped |-> GroupedSummary(merged)]

InitFilter ==
    /\ InitLoadVars
    /\ \E roster \in Rosters, h \in RawHistories :
          /\ slim_elements_df = roster
          /\ all_history_df = WithPlayerColumn(h, roster)
    /\ filterpc = "idle"
    /\ subset_df = <<>>
    /\ fh_key_players_df = <<>>
    /\ dynamic_table = <<>>

\* one call filter_data(slim_elements_df, all_history_df, teams, position, week)
FilterData ==
    /\ \E teams \in TeamSelections, pos \in PositionSelections, minw \in MinWeeks :
          LET r == filter_data(slim_elements_df, all_history_df, teams, pos, minw) IN
              /\ slim_elements_df' = r.slim_elements_df
              /\ all_history_df' = r.all_history_df
              /\ subset_df' = r.subset_df
              /\ fh_key_players_df' = r.fh_key_players_df
              /\ dynamic_table' \in SortOutcomes(r.grouped)
    /\ filterpc' = "returned"
    /\ UNCHANGED loadVars

NextFilter == FilterData

SpecFilter == InitFilter /\ [][NextFilter]_vars

\* ======================================================================
\* Properties
\* ======================================================================

Finished == mainpc \in {"returned", "raised"}
Succeeded == {i \in Range(futures) : fstate[i] = "ok"}
Failed == {i \in Range(futures) : fstate[i] \in ExcKinds}

\* C1: when load_history is called with a progress callback over N players
\* and every fetch succeeds, the callback has been invoked exactly N times,
\* every invocation received total = N, and the last one received
\* completed = N.
C1_CallbackCountAndFinal ==
    (mainpc = "returned" /\ progress_callback) =>
        /\ Len(calls) = Len(elements_df)
        /\ \A k \in 1..Len(calls) : calls[k][2] = Len(elements_df)
        /\ calls[Len(calls)][1] = Len(elements_df)

\* C2: the completed values handed to successive callback invocations are
\* 1, 2, 3, ...: strictly increasing, no value repeated, none skipped.
C2_CompletedCountsIncrease ==
    \A k \in 1..Len(calls) : calls[k][1] = k

\* C3: when at least one per-player fetch fails, load_history fails with
\* AggregateFetchError and hands no table to its caller.
C3_FailsWithAggregateFetchError ==
    (Finished /\ Failed # {}) =>
        /\ result.kind = "exception"
        /\ result.exc = "AggregateFetchError"
        /\ result.table = <<>>

\* C9: prepare_data keeps in the slim table exactly the players with
\* minutes > 0, and the history requests it issues through load_history are
\* for retained players only, at most one per id, and one for every retained
\* id by the time control is handed back.
C9_OnlyRetainedPlayersFetched ==
    (entry = "prepare_data") =>
        /\ Range(slim_ids) = {i \in Ids : payload[i] > 0}
        /\ \A k \in 1..Len(requests) : payload[requests[k]] > 0
        /\ \A j, k \in 1..Len(requests) : (j # k) => (requests[j] # requests[k])
        /\ Finished => (Range(requests) = {i \in Ids : payload[i] > 0})

\* prepare_data handed back a table for a payload with a zero-minute player
C9_Witness ==
    /\ entry = "prepare_data"
    /\ mainpc = "returned"
    /\ \E i \in Ids : payload[i] = 0
    /\ Len(requests) >= 2

\* C10: load_history hands control back (table or exception) only after
\* every submitted task has finished: each fetch was started and issued,
\* and the callback ran once for every fetch that succeeded.
C10_ReturnsAfterAllTasksFinish ==
    Finished =>
        /\ \A i \in Range(elements_df) : pc[i] = "done" /\ i \in Range(requests)
        /\ progress_callback => (Len(calls) = Cardinality(Succeeded))

\* the failure reached the caller although a task that was still unfinished
\* when result() raised went on to succeed and report progress
C10_Witness ==
    /\ mainpc = "raised"
    /\ progress_callback
    /\ \E i \in pendingAtRaise : fstate[i] = "ok"
    /\ Len(calls) >= 1

Returned == filterpc = "returned"
RowsOf(tbl, id) == {k \in 1..Len(tbl) : tbl[k].element = id}

\* C4: in the annotated history every row's total_points_sum is the sum of
\* its player's total_points over the surviving rows with round <= the row's
\* round, whatever the row order of the input, and the column is
\* non-decreasing along a player's rounds.
C4_CumulativeByRound ==
    Returned =>
        \A k \in 1..Len(fh_key_players_df) :
            LET row == fh_key_players_df[k]
                mine == RowsOf(fh_key_players_df, row.element)
            IN /\ row.total_points_sum =
                    SeqSum([j \in 1..Len(fh_key_players_df) |->
                        IF j \in mine /\ fh_key_players_df[j].round <= row.round
                            THEN fh_key_players_df[j].total_points ELSE 0])
               /\ \A j \in mine :
                    (fh_key_players_df[j].round <= row.round) =>
                        (fh_key_players_df[j].total_points_sum <= row.total_points_sum)

\* C5: the summary table has exactly one row per player id present in the
\* annotated history, carrying the sum of that player's total_points;
\* distinct ids are never merged.
C5_OneSummaryRowPerPlayerId ==
    Returned =>
        LET ids == {fh_key_players_df[k].element : k \in 1..Len(fh_key_players_df)} IN
            /\ Len(dynamic_table) = Cardinality(ids)
            /\ \A id \in ids :
                  LET mine == RowsOf(fh_key_players_df, id)
                      key == KeyOf(fh_key_players_df[CHOOSE k \in mine : TRUE])
                  IN \E g \in 1..Len(dynamic_table) :
                        /\ KeyOf(dynamic_table[g]) = key
                        /\ dynamic_table[g].total_points =
                              SeqSum([j \in 1..Len(fh_key_players_df) |->
                                  IF j \in mine
                                      THEN fh_key_players_df[j].total_points ELSE 0])

\* C6: filter_data fails instead of returning tables in which a player with
\* price <= 0 carries a total_value: no returned row has price <= 0.
C6_NoNonPositivePriceReturned ==
    Returned =>
        /\ \A k \in 1..Len(fh_key_players_df) :
              fh_key_players_df[k].price > 0
              /\ fh_key_players_df[k].total_value.kind = "finite"
        /\ \A g \in 1..Len(dynamic_table) :
              dynamic_table[g].price > 0
              /\ dynamic_table[g].total_value.kind = "finite"

\* position of a summary row in the order the grouping produced
GroupIndex(row) ==
    LET grouped == GroupedSummary(fh_key_players_df) IN
        CHOOSE g \in 1..Len(grouped) : grouped[g] = row

\* C7: the summary table is ordered by total_points descending and rows with
\* equal total_points keep the relative order the grouping produced.
C7_DescendingStable ==
    Returned =>
        \A j, k \in 1..Len(dynamic_table) :
            (j < k) =>
                /\ dynamic_table[j].total_points >= dynamic_table[k].total_points
                /\ (dynamic_table[j].total_points = dynamic_table[k].total_points) =>
                      (GroupIndex(dynamic_table[j]) < GroupIndex(dynamic_table[k]))

\* C8: no filter_data call changes slim_elements_df or all_history_df.
C8_InputsNeverMutated ==
    [][/\ slim_elements_df' = slim_elements_df
       /\ all_history_df' = all_history_df]_vars

\* a call that dropped rows and returned annotated rows with added columns
C8_Witness ==
    /\ Returned
    /\ fh_key_players_df # <<>>
    /\ Len(fh_key_players_df) < Len(all_history_df)
    /\ Len(subset_df) < Len(slim_elements_df)

====
